---- MODULE Spec2Model ----
(***************************************************************************)
(* A model of djenterator: the phrase generator and the song assembler of  *)
(* djentils.py and the Tuning / _Phrase / Song classes of music.py.        *)
(*                                                                         *)
(* Python lists are objects on a heap: a variable or a field holds a       *)
(* reference (an index into heap), so that two phrases which were given    *)
(* the same list share it.  List positions are 0-based as in the source;   *)
(* ListGet / ListSet / SliceAssign translate to TLA+'s 1-based sequences.  *)
(***************************************************************************)
EXTENDS Integers, Sequences, FiniteSets, TLC

\* ------------------------------------------------------------------ bounds
PhraseLen == 4            \* the number of slots of a phrase
MaxPhrases == 2           \* largest min_phrases / max_phrases argument tried
MaxStrings == 6           \* largest num_strings argument tried

\* --------------------------------------------------------------- constants
NOTES_PER_PHRASE == PhraseLen
BAD_ENDINGS == {"h", "p"}
CHROMATIC_NOTES ==
    <<"a", "a#", "b", "c", "c#", "d", "d#", "e", "f", "f#", "g", "g#">>

VARIABLES
    heap,         \* the list objects: heap[r] is the content of list r
    notes_ref,    \* _gen_phrase / _roll_*: the list bound to `notes` (0: none)
    mutes_ref,    \* _gen_phrase / _roll_*: the list bound to `mutes` (0: none)
    index,        \* the cursor of _gen_phrase and of the function it called
    end,          \* _roll_effects: end = len(notes)
    adding,       \* _roll_effects: adding
    tremolo,      \* _roll_effects: tremolo
    hammerpull,   \* _roll_effects: hammerpull
    pc,           \* the statement control is at
    caller,       \* who called _gen_phrase: "gen_song" or "direct"
    tape,         \* _roll: <<>> is random.random, else a scripted source of
                  \* values in percent
    rates,        \* the module-level probabilities, in percent
    tpos,         \* _roll: number of draws taken from the script (mod length)
    min_phrases,  \* gen_song argument
    max_arg,      \* gen_song argument max_phrases as passed (NONE: omitted)
    max_phrases,  \* gen_song local max_phrases after line 163
    num_phrases,  \* gen_song local
    song,         \* the Song object: [phrase_ls, tuning]
    tuning_args,  \* arguments of the Tuning constructor call
    tuning,       \* the Tuning object under construction / constructed
    raised,       \* the exception that ended the run ("" while none)
    options,      \* djenterator.OPTIONS as djenterate reads them
    fs,           \* the files that exist: path |-> content
    dirs,         \* the directories that exist (each with its trailing '/')
    file_i,       \* djenterate: the loop variable i
    songfile,     \* djenterate: the local songfile
    overwrite,    \* djenterate: the local overwrite
    prompts       \* the console: every input() call, its file and the answer

vars == <<heap, notes_ref, mutes_ref, index, end, adding, tremolo, hammerpull,
          pc, caller, tape, rates, tpos, min_phrases, max_arg, max_phrases,
          num_phrases, song, tuning_args, tuning, raised, options, fs, dirs,
          file_i, songfile, overwrite, prompts>>

phraseVars == <<heap, notes_ref, mutes_ref, index, end, adding, tremolo,
                hammerpull, tpos>>
songVars == <<min_phrases, max_arg, max_phrases, num_phrases, song>>
tuningVars == <<tuning_args, tuning>>
envVars == <<caller, tape, rates, options>>
fileVars == <<fs, dirs, file_i, songfile, overwrite, prompts>>

\* ------------------------------------------------------------ Python lists
\* ls[i] for a 0-based i; a negative i counts from the end
ListGet(ls, i) == IF i < 0 THEN ls[Len(ls) + i + 1] ELSE ls[i + 1]

\* ls[i] = x is an IndexError unless -len <= i < len
InRange(ls, i) == i < Len(ls) /\ i >= 0 - Len(ls)

ListSet(ls, i, x) ==
    IF i < 0 THEN [ls EXCEPT ![Len(ls) + i + 1] = x]
             ELSE [ls EXCEPT ![i + 1] = x]

ClampIdx(i, n) == IF i < 0 THEN (IF i + n < 0 THEN 0 ELSE i + n)
                           ELSE (IF i > n THEN n ELSE i)

\* ls[i:j] = new: the slice is clamped to the list and replaced as a whole,
\* so the list grows or shrinks when the slice and new differ in length
SliceAssign(ls, i, j, new) ==
    LET lo == ClampIdx(i, Len(ls))
        hi0 == ClampIdx(j, Len(ls))
        hi == IF hi0 < lo THEN lo ELSE hi0
    IN  SubSeq(ls, 1, lo) \o new \o SubSeq(ls, hi + 1, Len(ls))

\* ls[i:j]
Slice(ls, i, j) ==
    LET lo == ClampIdx(i, Len(ls))
        hi == ClampIdx(j, Len(ls))
    IN  SubSeq(ls, lo + 1, hi)

\* the lists the generator is working on
notes == heap[notes_ref]
mutes == heap[mutes_ref]

\* ------------------------------------------------------------- the _roll source
\* djentils.py line 16-22, in percent
NOTE_RATE == 50
ZERO_RATE == 75
MUTE_RATE == 50
HAMMERPULL_RATE == 20
MEASURE_REPEAT_RATE == 55
TREMOLO_RATE == 40
PHRASE_REPEAT_RATE == 50

DefaultRates ==
    [note |-> NOTE_RATE, zero |-> ZERO_RATE, mute |-> MUTE_RATE,
     hammerpull |-> HAMMERPULL_RATE, measure_repeat |-> MEASURE_REPEAT_RATE,
     tremolo |-> TREMOLO_RATE, phrase_repeat |-> PHRASE_REPEAT_RATE]

\* the outcomes of `random.random() < rate`: random() is in [0, 1), so rate
\* 0 never succeeds and rate 1 always does
Outcomes(rate) ==
    IF rate <= 0 THEN {FALSE} ELSE IF rate >= 100 THEN {TRUE} ELSE BOOLEAN

\* The k-th draw of the current step, as the outcome of `_roll() < rate`:
\* any outcome random.random allows, the scripted one from a script.
RollSet(k, rate) ==
    IF tape = <<>> THEN Outcomes(rate)
    ELSE {tape[((tpos + k) % Len(tape)) + 1] < rate}

Drawn(n) == IF tape = <<>> THEN 0 ELSE (tpos + n) % Len(tape)

\* ------------------------------------------------------------ djentils.py
empty_note_ls == [i \in 1..NOTES_PER_PHRASE |-> "-"]

\* the two frets exchanged
roll_note_and_mute_frets_exchanged(zero, mute) ==
    <<IF zero THEN "1" ELSE "0", IF mute THEN "m" ELSE "-">>

roll_note_and_mute(zero, mute) ==
    <<IF zero THEN "0" ELSE "1", IF mute THEN "m" ELSE "-">>

\* the room test off by one: `index < end`
HasRoom_upto_end(i, e) == i < e

\* room left for one more slot pair: `index < end - 1`
HasRoom(i, e) == i < e - 1

\* the two extensions the wrong way round
toadd_swapped(last) == IF last = "0" THEN <<"p", "0">> ELSE <<"h", "1">>

\* _add_hammerpull line 76
toadd(last) == IF last = "0" THEN <<"h", "1">> ELSE <<"p", "0">>

\* the mute drawn for the first slot of the pair
hammerpull_mute_first_slot(i) == i

\* _add_hammerpull line 79: the slot whose mute is drawn
hammerpull_mute_slot(i) == i + 1

\* _roll_effects lines 105-106
still_adding(a, t, h) == IF ~t /\ ~h THEN FALSE ELSE a

\* _gen_phrase line 136-140: the note draw succeeds; a note and its mute are
\* written at the cursor and _roll_effects is entered
gen_phrase_note ==
    /\ pc = "gen_loop"
    /\ index < NOTES_PER_PHRASE
    /\ \E r \in RollSet(0, rates.note), zero \in RollSet(1, rates.zero),
          mute \in RollSet(2, rates.mute) :
         /\ r
         /\ LET nm == roll_note_and_mute(zero, mute) IN
            IF InRange(notes, index) /\ InRange(mutes, index)
            THEN /\ heap' = [heap EXCEPT
                               ![notes_ref] = ListSet(@, index, nm[1]),
                               ![mutes_ref] = ListSet(@, index, nm[2])]
                 /\ index' = index + 1
                 /\ adding' = TRUE
                 /\ end' = Len(notes)
                 /\ pc' = "effects_loop"
                 /\ raised' = raised
            ELSE /\ pc' = "raised"
                 /\ raised' = "IndexError"
                 /\ UNCHANGED <<heap, index, adding, end>>
    /\ tpos' = Drawn(3)
    /\ UNCHANGED <<notes_ref, mutes_ref, tremolo, hammerpull, envVars>>
    /\ UNCHANGED <<songVars, tuningVars, fileVars>>

\* _gen_phrase line 142-143: the note draw fails, the slot stays silent
gen_phrase_skip ==
    /\ pc = "gen_loop"
    /\ index < NOTES_PER_PHRASE
    /\ \E r \in RollSet(0, rates.note) : ~r
    /\ index' = index + 1
    /\ tpos' = Drawn(1)
    /\ UNCHANGED <<heap, notes_ref, mutes_ref, end, adding, tremolo,
                   hammerpull, pc, envVars, raised>>
    /\ UNCHANGED <<songVars, tuningVars, fileVars>>

\* _gen_phrase line 144
gen_phrase_return ==
    /\ pc = "gen_loop"
    /\ ~(index < NOTES_PER_PHRASE)
    /\ pc' = IF caller = "gen_song" THEN "song_add" ELSE "returned"
    /\ UNCHANGED <<phraseVars, envVars, raised>>
    /\ UNCHANGED <<songVars, tuningVars, fileVars>>

\* _roll_effects line 95-98: one pass of the effects loop draws both flags
roll_effects_pass ==
    /\ pc = "effects_loop"
    /\ adding /\ HasRoom(index, end)
    /\ \E t \in RollSet(0, rates.tremolo),
          h \in RollSet(1, rates.hammerpull) :
         /\ tremolo' = t
         /\ hammerpull' = h
         /\ pc' = IF t THEN "tremolo_loop" ELSE "effects_hammerpull"
    /\ tpos' = Drawn(2)
    /\ UNCHANGED <<heap, notes_ref, mutes_ref, index, end, adding, envVars,
                   raised>>
    /\ UNCHANGED <<songVars, tuningVars, fileVars>>

\* _roll_effects line 95, 107: the loop ends and the cursor is handed back;
\* the locals of the call are gone with it
roll_effects_return ==
    /\ pc = "effects_loop"
    /\ ~(adding /\ HasRoom(index, end))
    /\ pc' = "gen_loop"
    /\ end' = 0
    /\ adding' = FALSE
    /\ tremolo' = FALSE
    /\ hammerpull' = FALSE
    /\ UNCHANGED <<heap, notes_ref, mutes_ref, index, tpos, envVars,
                   raised>>
    /\ UNCHANGED <<songVars, tuningVars, fileVars>>

\* _roll_tremolo line 53-56: one more note of the run
roll_tremolo_note ==
    /\ pc = "tremolo_loop"
    /\ HasRoom(index, end)
    /\ \E r \in RollSet(0, rates.note), zero \in RollSet(1, rates.zero),
          mute \in RollSet(2, rates.mute) :
         /\ r
         /\ LET nm == roll_note_and_mute(zero, mute) IN
            IF InRange(notes, index) /\ InRange(mutes, index)
            THEN /\ heap' = [heap EXCEPT
                               ![notes_ref] = ListSet(@, index, nm[1]),
                               ![mutes_ref] = ListSet(@, index, nm[2])]
                 /\ index' = index + 1
                 /\ UNCHANGED <<pc, raised>>
            ELSE /\ pc' = "raised"
                 /\ raised' = "IndexError"
                 /\ UNCHANGED <<heap, index>>
    /\ tpos' = Drawn(3)
    /\ UNCHANGED <<notes_ref, mutes_ref, end, adding, tremolo, hammerpull,
                   envVars>>
    /\ UNCHANGED <<songVars, tuningVars, fileVars>>

\* _roll_tremolo line 53, 57-59: out of room, or the draw fails
roll_tremolo_return ==
    /\ pc = "tremolo_loop"
    /\ \/ /\ ~HasRoom(index, end)
          /\ tpos' = tpos
       \/ /\ HasRoom(index, end)
          /\ \E r \in RollSet(0, rates.note) : ~r
          /\ tpos' = Drawn(1)
    /\ pc' = "effects_hammerpull"
    /\ UNCHANGED <<heap, notes_ref, mutes_ref, index, end, adding, tremolo,
                   hammerpull, envVars, raised>>
    /\ UNCHANGED <<songVars, tuningVars, fileVars>>

\* the cursor moved past the first slot of the pair only
hammerpull_next_index_one(i) == i + 1

\* _add_hammerpull line 80: the cursor it returns
hammerpull_next_index(i) == i + 2

\* _roll_effects line 101-106 with _add_hammerpull (62-80): the extension is
\* written over the two slots at the cursor
add_hammerpull ==
    /\ pc = "effects_hammerpull"
    /\ hammerpull /\ HasRoom(index, end)
    /\ \E m \in RollSet(0, rates.mute) :
         LET new_notes == SliceAssign(notes, index, index + 2,
                                      toadd(ListGet(notes, index - 1)))
             slot == hammerpull_mute_slot(index)
         IN  IF m /\ ~InRange(mutes, slot)
             THEN /\ heap' = [heap EXCEPT ![notes_ref] = new_notes]
                  /\ pc' = "raised"
                  /\ raised' = "IndexError"
                  /\ UNCHANGED <<index, adding>>
             ELSE /\ heap' = [heap EXCEPT
                                ![notes_ref] = new_notes,
                                ![mutes_ref] =
                                    IF m THEN ListSet(@, slot, "m") ELSE @]
                  /\ index' = hammerpull_next_index(index)
                  /\ adding' = still_adding(adding, tremolo, hammerpull)
                  /\ pc' = "effects_loop"
                  /\ raised' = raised
    /\ tpos' = Drawn(1)
    /\ UNCHANGED <<notes_ref, mutes_ref, end, tremolo, hammerpull, envVars>>
    /\ UNCHANGED <<songVars, tuningVars, fileVars>>

\* _roll_effects line 101, 105-106: no extension this pass
skip_hammerpull ==
    /\ pc = "effects_hammerpull"
    /\ ~(hammerpull /\ HasRoom(index, end))
    /\ adding' = still_adding(adding, tremolo, hammerpull)
    /\ pc' = "effects_loop"
    /\ UNCHANGED <<heap, notes_ref, mutes_ref, index, end, tremolo,
                   hammerpull, tpos, envVars, raised>>
    /\ UNCHANGED <<songVars, tuningVars, fileVars>>

\* the reroll applied to the last slot of the phrase
reroll_slot_last(halfway) == 2 * halfway - 1

\* the slot _roll_repeated_measures rerolls (line 124-125)
reroll_slot(halfway) == halfway - 1

\* _roll_repeated_measures line 118-125, the repeat draw succeeds: the first
\* half is copied over the second half, then a bad ending is rerolled
repeat_measures ==
    /\ pc = "returned"
    /\ \E r \in RollSet(0, rates.measure_repeat),
          zero \in RollSet(1, rates.zero), mute \in RollSet(2, rates.mute) :
         /\ r
         /\ LET halfway == Len(notes) \div 2
                n1 == SliceAssign(notes, halfway, Len(notes),
                                  Slice(notes, 0, halfway))
                m1 == SliceAssign(mutes, halfway, Len(mutes),
                                  Slice(mutes, 0, halfway))
                slot == reroll_slot(halfway)
                nm == roll_note_and_mute(zero, mute)
            IN  IF ListGet(n1, slot) \in BAD_ENDINGS
                THEN /\ heap' = [heap EXCEPT
                                   ![notes_ref] = ListSet(n1, slot, nm[1]),
                                   ![mutes_ref] = ListSet(m1, slot, nm[2])]
                     /\ tpos' = Drawn(3)
                ELSE /\ heap' = [heap EXCEPT ![notes_ref] = n1,
                                             ![mutes_ref] = m1]
                     /\ tpos' = Drawn(1)
    /\ pc' = "repeated"
    /\ UNCHANGED <<notes_ref, mutes_ref, index, end, adding, tremolo,
                   hammerpull, envVars, raised>>
    /\ UNCHANGED <<songVars, tuningVars, fileVars>>

\* _roll_repeated_measures line 118, the repeat draw fails
keep_measures ==
    /\ pc = "returned"
    /\ \E r \in RollSet(0, rates.measure_repeat) : ~r
    /\ tpos' = Drawn(1)
    /\ pc' = "repeated"
    /\ UNCHANGED <<heap, notes_ref, mutes_ref, index, end, adding, tremolo,
                   hammerpull, envVars, raised>>
    /\ UNCHANGED <<songVars, tuningVars, fileVars>>

GenPhraseNext ==
    \/ gen_phrase_note
    \/ gen_phrase_skip
    \/ gen_phrase_return
    \/ roll_effects_pass
    \/ roll_effects_return
    \/ roll_tremolo_note
    \/ roll_tremolo_return
    \/ add_hammerpull
    \/ skip_hammerpull

\* ------------------------------------------------------------------ music.py
NoTuning == [base_note |-> "", tuning_type |-> "", notes |-> <<>>]
DefaultArgs == [tuning_type |-> "standard", base_note |-> "c#",
                num_strings |-> 9]

\* str.lower() on the strings the model passes around
Lower(s) == CASE s = "A" -> "a"
              [] s = "DROP" -> "drop"
              [] s = "YES" -> "yes"
              [] s = "No" -> "no"
              [] OTHER -> s

InChromatic(n) == \E i \in 1..Len(CHROMATIC_NOTES) : CHROMATIC_NOTES[i] = n

\* CHROMATIC_NOTES.index(n), 0-based
ChromaticIndex(n) ==
    (CHOOSE i \in 1..Len(CHROMATIC_NOTES) :
        /\ CHROMATIC_NOTES[i] = n
        /\ \A j \in 1..(i - 1) : CHROMATIC_NOTES[j] # n) - 1

\* next_note line 26-28 (defined when base_note.lower() is in the table)
next_note(base_note, offset) ==
    LET base_index == ChromaticIndex(Lower(base_note))
        next_index == (base_index + offset) % Len(CHROMATIC_NOTES)
    IN  CHROMATIC_NOTES[next_index + 1]

\* the first offsets of the two families exchanged
first_offset_exchanged(tuning_type) == IF tuning_type = "drop" THEN 5 ELSE 7

\* Tuning.__init__ line 53
first_offset(tuning_type) == IF tuning_type = "drop" THEN 7 ELSE 5

\* every later string a fourth up, the +4 step forgotten
string_offset_all_fourths(i, second_to_last_str) == 5

\* Tuning.__init__ line 61
string_offset(i, second_to_last_str) ==
    IF i # second_to_last_str THEN 5 ELSE 4

\* Tuning.__init__ line 60-63: the loop `for i in range(2, num_strings)`
RECURSIVE tuning_loop(_, _, _)
tuning_loop(ns, i, num_strings) ==
    IF i >= num_strings THEN ns
    ELSE LET next_offset == string_offset(i, num_strings - 2)
             base == ListGet(ns, i - 1)
         IN  tuning_loop(Append(ns, next_note(base, next_offset)),
                         i + 1, num_strings)

\* Tuning.__init__ line 47-63
Tuning(tuning_type, base_note, num_strings) ==
    [base_note |-> Lower(base_note),
     tuning_type |-> Lower(tuning_type),
     notes |-> tuning_loop(
                  <<base_note, next_note(base_note, first_offset(tuning_type))>>,
                  2, num_strings)]

\* the arguments the constructor is tried with
TuningTypes == {"standard", "drop", "DROP", "open"}
BaseNotes == {CHROMATIC_NOTES[i] : i \in 1..Len(CHROMATIC_NOTES)} \cup {"A", "h"}

\* Tuning(tuning_type, base_note, num_strings) returns the new object
new_tuning ==
    /\ pc = "tuning_call"
    /\ \E tt \in TuningTypes, bn \in BaseNotes, n \in 0..MaxStrings :
         /\ InChromatic(Lower(bn))
         /\ tuning_args' = [tuning_type |-> tt, base_note |-> bn,
                            num_strings |-> n]
         /\ tuning' = Tuning(tt, bn, n)
    /\ pc' = "tuning_built"
    /\ UNCHANGED <<phraseVars, songVars, envVars, fileVars, raised>>

\* next_note line 26: tuple.index raises ValueError for an unknown note, and
\* the constructor call at line 54 ends with it
new_tuning_raises ==
    /\ pc = "tuning_call"
    /\ \E tt \in TuningTypes, bn \in BaseNotes, n \in 0..MaxStrings :
         /\ ~InChromatic(Lower(bn))
         /\ tuning_args' = [tuning_type |-> tt, base_note |-> bn,
                            num_strings |-> n]
    /\ pc' = "raised"
    /\ raised' = "ValueError"
    /\ UNCHANGED <<phraseVars, songVars, envVars, fileVars, tuning>>

\* _PhraseLine.__init__ / _MuteLine.__init__: ['-'] * num_notes
silent_line(num_notes) == [i \in 1..num_notes |-> "-"]

\* the lines labelled in the order of the tuning, thickest string first
line_label_index_thickest_first(strs, string_num) == string_num

\* _Phrase.__init__ line 199-200: the tuning note that labels lines[string_num]
line_label_index(strs, string_num) == strs - string_num - 1

\* _Phrase.__init__ line 193-206 on heap h: one new list per line and one for
\* the mute line; lines[string_num] is labelled tuning_notes[strs-string_num-1]
new_phrase(h, tun, num_notes, num_strings) ==
    LET tuning_notes == tun.notes
        strs == num_strings
        make_phrase_line(string_num) ==
            [base_note |-> Lower(ListGet(tuning_notes,
                                         line_label_index(strs, string_num))),
             notes |-> Len(h) + string_num + 1]
    IN  [heap |-> h \o [k \in 1..(strs + 1) |-> silent_line(num_notes)],
         phrase |-> [num_strings |-> strs,
                     lines |-> [k \in 1..strs |-> make_phrase_line(k - 1)],
                     mute_line |-> [notes |-> Len(h) + strs + 1]]]

\* the notes given to the first line of the phrase instead of the last
set_notes_first_line(phrase, n_ref, m_ref) ==
    [phrase EXCEPT !.lines[1].notes = n_ref,
                   !.mute_line.notes = m_ref]

\* _Phrase.set_notes line 217-219: the two lists are stored, not copied
set_notes(phrase, n_ref, m_ref) ==
    [phrase EXCEPT !.lines[phrase.num_strings].notes = n_ref,
                   !.mute_line.notes = m_ref]

\* Song.__init__ line 258-259
Song(tun) == [phrase_ls |-> <<>>, tuning |-> tun]
NoSong == Song(NoTuning)

\* the new phrase put in front: list.insert(0, phrase)
phrase_ls_add_front(ls, phrase) == <<phrase>> \o ls

\* where Song.add_phrase puts the new phrase (line 282: list.append)
phrase_ls_add(ls, phrase) == Append(ls, phrase)

\* Song.add_phrase line 277-282 on heap h: the new heap and the new song
add_phrase(h, sng, n_ref, m_ref) ==
    LET num_notes == Len(h[n_ref])
        num_strings == Len(sng.tuning.notes)
        np == new_phrase(h, sng.tuning, num_notes, num_strings)
    IN  [heap |-> np.heap,
         song |-> [sng EXCEPT !.phrase_ls =
                      phrase_ls_add(@, set_notes(np.phrase, n_ref, m_ref))]]

\* --------------------------------------------------------------- gen_song
NONE == 0 - 1       \* max_phrases=None
INF == 0 - 2        \* float("inf")
DEFAULT_TUNING == Tuning("drop", "a", 9)

\* `not max_phrases`
falsy(m) == m = NONE \/ m = 0

\* n < m where m may be float("inf")
less_than(n, m) == IF m = INF THEN TRUE ELSE n < m

\* min(a, m) where m may be float("inf")
py_min(a, m) == IF m = INF THEN a ELSE IF m < a THEN m ELSE a

\* the outer loop test, line 166
more_phrases(n, lo, hi) == less_than(n, py_min(lo, hi))

\* the cap test off by one: `num_phrases <= max_phrases`
below_cap_inclusive(n, hi) == IF hi = INF THEN TRUE ELSE n <= hi

\* the cap test of the duplication loop, line 172
below_cap(n, hi) == less_than(n, hi)

\* the list a fresh _gen_phrase list is bound to: a new object (line 131-132)
fresh_ref(h) == Len(h) + 1

store(h, r, ls) == IF r = Len(h) + 1 THEN Append(h, ls)
                   ELSE [h EXCEPT ![r] = ls]

\* A song longer than this is not followed further (an unbounded max_phrases
\* lets the duplication loop run for as long as its draws succeed).
MaxSongLen == MaxPhrases + 1

\* the scripts _roll is replaced by while a song is generated
SongTapes == {<<0>>, <<99>>, <<0, 0, 99, 99, 0>>, <<0, 99, 0>>}

\* gen_song line 160-163
gen_song_enter(lo, hi) ==
    /\ min_phrases' = lo
    /\ max_arg' = hi
    /\ max_phrases' = IF falsy(hi) THEN INF ELSE hi
    /\ num_phrases' = 0
    /\ song' = Song(DEFAULT_TUNING)

\* a direct call gen_song(lo, hi) or gen_song(lo)
gen_song_call ==
    /\ pc = "song_call"
    /\ \E lo \in 0..MaxPhrases, hi \in {NONE} \cup 0..MaxPhrases :
         gen_song_enter(lo, hi)
    /\ pc' = "song_loop"
    /\ UNCHANGED <<phraseVars, tuningVars, fileVars, envVars, raised>>

\* gen_song line 166-167 with _gen_phrase line 131-133: the loop goes on and
\* _gen_phrase starts on two new lists
gen_song_gen_phrase ==
    /\ pc = "song_loop"
    /\ more_phrases(num_phrases, min_phrases, max_phrases)
    /\ LET n_ref == fresh_ref(heap)
           h1 == store(heap, n_ref, empty_note_ls)
           m_ref == fresh_ref(h1)
       IN  /\ heap' = store(h1, m_ref, empty_note_ls)
           /\ notes_ref' = n_ref
           /\ mutes_ref' = m_ref
    /\ index' = 0
    /\ pc' = "gen_loop"
    /\ UNCHANGED <<end, adding, tremolo, hammerpull, tpos, songVars,
                   tuningVars, fileVars, envVars, raised>>

\* gen_song line 166, 175
gen_song_return ==
    /\ pc = "song_loop"
    /\ ~more_phrases(num_phrases, min_phrases, max_phrases)
    /\ pc' = "song_done"
    /\ UNCHANGED <<phraseVars, songVars, tuningVars, fileVars, envVars, raised>>

\* gen_song line 168-169: the fresh phrase is appended
gen_song_add ==
    /\ pc = "song_add"
    /\ LET r == add_phrase(heap, song, notes_ref, mutes_ref)
       IN  heap' = r.heap /\ song' = r.song
    /\ num_phrases' = num_phrases + 1
    /\ pc' = "song_repeat"
    /\ UNCHANGED <<notes_ref, mutes_ref, index, end, adding, tremolo,
                   hammerpull, tpos, min_phrases, max_arg, max_phrases,
                   tuningVars, fileVars, envVars, raised>>

\* gen_song line 172-174: the repeat draw succeeds below the cap and the
\* same two lists are appended as one more phrase
gen_song_repeat ==
    /\ pc = "song_repeat"
    /\ num_phrases < MaxSongLen
    /\ \E r \in Outcomes(rates.phrase_repeat) : r
    /\ below_cap(num_phrases, max_phrases)
    /\ LET r == add_phrase(heap, song, notes_ref, mutes_ref)
       IN  heap' = r.heap /\ song' = r.song
    /\ num_phrases' = num_phrases + 1
    /\ UNCHANGED <<notes_ref, mutes_ref, index, end, adding, tremolo,
                   hammerpull, tpos, min_phrases, max_arg, max_phrases,
                   tuningVars, fileVars, pc, envVars, raised>>

\* gen_song line 172: the repeat draw fails or the cap is reached
gen_song_no_repeat ==
    /\ pc = "song_repeat"
    /\ \E r \in Outcomes(rates.phrase_repeat) : ~(r /\ below_cap(num_phrases, max_phrases))
    /\ pc' = "song_loop"
    /\ UNCHANGED <<phraseVars, songVars, tuningVars, fileVars, envVars, raised>>

\* ------------------------------------------------------ music.py: the text
\* str.join
RECURSIVE Join(_, _)
Join(ss, sep) == IF ss = <<>> THEN ""
                 ELSE IF Len(ss) = 1 THEN ss[1]
                 ELSE ss[1] \o sep \o Join(Tail(ss), sep)

\* str.rjust(2)
rjust2(s) == IF Len(s) >= 2 THEN s
             ELSE IF Len(s) = 1 THEN " " \o s
             ELSE "  "

\* _get_qtr line 86-88
get_qtr(i, ls) ==
    LET qtr == Len(ls) \div 4
    IN  Slice(ls, i * qtr, (i + 1) * qtr)

\* _get_mid line 102-104
get_mid(line_notes) ==
    Join([i \in 1..4 |-> Join(get_qtr(i - 1, line_notes), "")], "|")

\* _PhraseLine.__str__ line 146-148
phrase_line_str(h, line) ==
    rjust2(line.base_note) \o "|" \o get_mid(h[line.notes]) \o "|"

\* _MuteLine.__str__ line 177-179
mute_line_str(h, mute_line) == "  {" \o get_mid(h[mute_line.notes]) \o "}"

\* _Phrase.__str__ line 239-240
phrase_str(h, phrase) ==
    Join([k \in 1..(Len(phrase.lines) + 1) |->
            IF k <= Len(phrase.lines) THEN phrase_line_str(h, phrase.lines[k])
            ELSE mute_line_str(h, phrase.mute_line)], "\n")

\* Song.__str__ line 292
song_str(h, sng) ==
    Join([p \in 1..Len(sng.phrase_ls) |-> phrase_str(h, sng.phrase_ls[p])],
         "\n\n")

\* ----------------------------------------------------------- djenterator.py
PATH_SEP == "/"

\* str.rfind for a needle of one character: the 0-based position of its last
\* occurrence in s, -1 when there is none
RECURSIVE rfind_upto(_, _, _)
rfind_upto(s, ch, n) ==
    IF n = 0 THEN 0 - 1
    ELSE IF SubSeq(s, n, n) = ch THEN n - 1
    ELSE rfind_upto(s, ch, n - 1)

rfind(s, ch) == rfind_upto(s, ch, Len(s))

\* `ch in s`
Contains(s, ch) == rfind(s, ch) >= 0

\* str(num) of a natural number
RECURSIVE str(_)
str(num) ==
    LET digit(d) == <<"0", "1", "2", "3", "4", "5", "6", "7", "8", "9">>[d + 1]
    IN  IF num < 10 THEN digit(num)
        ELSE str(num \div 10) \o digit(num % 10)

\* _whole_filename line 88-91
whole_filename(dirname, filename) ==
    LET last == SubSeq(dirname, Len(dirname), Len(dirname))
    IN  (IF last # PATH_SEP THEN dirname \o PATH_SEP ELSE dirname)
            \o filename

\* _add_filenum line 103-107
add_filenum(name, num) ==
    IF ~Contains(name, ".") THEN name \o str(num)
    ELSE LET index_ == rfind(name, ".")
         IN  SubSeq(name, 1, index_) \o str(num)
                \o SubSeq(name, index_ + 1, Len(name))

\* the directory a path lies in, with its trailing separator
DirPart(p) == SubSeq(p, 1, rfind(p, PATH_SEP) + 1)

MaxFiles == 2             \* largest numfiles option tried
MaxAsks == 2              \* input() calls followed after an answer that is
                          \* neither yes nor no

OLD == "old"              \* the content of a file that was there before
FileNames == {"s.txt", "s"}
DirNames == {"./d", "d/"}
Responses == {"y", "YES", "n", "No", "maybe"}
FileTapes == {<<0>>, <<0, 0, 99, 99, 0>>}

DefaultOptions == [numfiles |-> 1, filename |-> "s.txt", dirname |-> "./d",
                   minphrases |-> 1, maxphrases |-> 1,
                   force_overwrites |-> FALSE]

\* no file system in sight: the state of the file variables in the
\* specifications that call the generator directly
NoFiles ==
    /\ fs = <<>>
    /\ dirs = {}
    /\ file_i = 0
    /\ songfile = ""
    /\ overwrite = FALSE
    /\ prompts = <<>>

\* djenterate line 186-191: the path of the i-th file (i counted from 0)
target(o, i) ==
    LET whole == whole_filename(o.dirname, o.filename)
    IN  IF o.numfiles > 1 THEN add_filenum(whole, i + 1) ELSE whole

\* open(filename, 'w') ... write ... close on the file system f
write(f, p, content) ==
    [q \in DOMAIN f \cup {p} |-> IF q = p THEN content ELSE f[q]]

\* every answer taken for a yes
bool_resp_always_yes(resp) == "yes"

\* _get_bool_resp line 119-123 on one answer: "yes" (return True), "no"
\* (return False), or "again" for one more input()
bool_resp(resp) ==
    IF Lower(resp) \in {"y", "yes"} THEN "yes"
    ELSE IF Lower(resp) \in {"n", "no"} THEN "no"
    ELSE "again"

\* djenterate line 174-185: the options are read, the directory is made if
\* it is not there
djenterate_call ==
    /\ pc = "djenterate_call"
    /\ dirs' = dirs \cup {whole_filename(options.dirname, "")}
    /\ file_i' = 0
    /\ pc' = "file_loop"
    /\ UNCHANGED <<phraseVars, songVars, tuningVars, envVars, raised, fs,
                   songfile, overwrite, prompts>>

\* djenterate line 185-186 with gen_song line 160-163: one more file, its
\* song is started; the objects of the song before are garbage
djenterate_gen_song ==
    /\ pc = "file_loop"
    /\ file_i < options.numfiles
    /\ gen_song_enter(options.minphrases, options.maxphrases)
    /\ heap' = <<>>
    /\ notes_ref' = 0
    /\ mutes_ref' = 0
    /\ index' = 0
    /\ pc' = "song_loop"
    /\ UNCHANGED <<end, adding, tremolo, hammerpull, tpos, tuningVars,
                   envVars, fileVars, raised>>

\* djenterate line 185, 200
djenterate_return ==
    /\ pc = "file_loop"
    /\ ~(file_i < options.numfiles)
    /\ pc' = "djenterate_done"
    /\ UNCHANGED <<phraseVars, songVars, tuningVars, envVars, fileVars,
                   raised>>

\* djenterate line 187-198, up to the call of _get_bool_resp: the path is
\* put together and looked up; with force_overwrites the `or` of line 196
\* does not call _get_bool_resp
djenterate_songfile ==
    /\ pc = "song_done"
    /\ songfile' = target(options, file_i)
    /\ IF songfile' \in DOMAIN fs
       THEN IF options.force_overwrites
            THEN overwrite' = TRUE /\ pc' = "file_write"
            ELSE overwrite' = overwrite /\ pc' = "file_prompt"
       ELSE overwrite' = overwrite /\ pc' = "file_write"
    /\ UNCHANGED <<phraseVars, songVars, tuningVars, envVars, raised, fs,
                   dirs, file_i, prompts>>

\* _get_bool_resp line 119-123, one input() call, with djenterate line
\* 196-198: yes goes on to write, no goes on to the next file, anything else
\* asks again
get_bool_resp ==
    /\ pc = "file_prompt"
    /\ \E resp \in Responses :
         /\ prompts' = Append(prompts, [file |-> songfile, resp |-> resp])
         /\ LET r == bool_resp(resp) IN
            IF r = "again"
            THEN /\ Len(prompts) < MaxAsks
                 /\ UNCHANGED <<overwrite, file_i, pc>>
            ELSE /\ overwrite' = (r = "yes")
                 /\ IF r = "yes" THEN pc' = "file_write" /\ file_i' = file_i
                    ELSE pc' = "file_loop" /\ file_i' = file_i + 1
    /\ UNCHANGED <<phraseVars, songVars, tuningVars, envVars, raised, fs,
                   dirs, songfile>>

\* djenterate line 199 with _writefile line 160-162: open() fails when the
\* directory of the path is not there
writefile ==
    /\ pc = "file_write"
    /\ IF DirPart(songfile) \in dirs
       THEN /\ fs' = write(fs, songfile, song_str(heap, song))
            /\ file_i' = file_i + 1
            /\ pc' = "file_loop"
            /\ raised' = raised
       ELSE /\ pc' = "raised"
            /\ raised' = "FileNotFoundError"
            /\ UNCHANGED <<fs, file_i>>
    /\ UNCHANGED <<phraseVars, songVars, tuningVars, envVars, dirs,
                   songfile, overwrite, prompts>>

\* ------------------------------------------- a direct call of _gen_phrase
\* _gen_phrase line 131-133 has run: two fresh lists, cursor 0; the phrase
\* it returns is then handed to _roll_repeated_measures
PhraseInit ==
    /\ heap = <<empty_note_ls, empty_note_ls>>
    /\ notes_ref = 1
    /\ mutes_ref = 2
    /\ index = 0
    /\ end = 0
    /\ adding = FALSE
    /\ tremolo = FALSE
    /\ hammerpull = FALSE
    /\ pc = "gen_loop"
    /\ caller = "direct"
    /\ tape = <<>>
    /\ rates = DefaultRates
    /\ tpos = 0
    /\ min_phrases = 0
    /\ max_arg = NONE
    /\ max_phrases = NONE
    /\ num_phrases = 0
    /\ song = NoSong
    /\ tuning_args = DefaultArgs
    /\ tuning = NoTuning
    /\ raised = ""
    /\ options = DefaultOptions
    /\ NoFiles

PhraseNext == GenPhraseNext \/ repeat_measures \/ keep_measures

SpecPhrase == PhraseInit /\ [][PhraseNext]_vars

\* the same call, the interpreter never stopping while a statement is left to
\* run; nothing is assumed about the outcomes of the draws
SpecPhraseFair == PhraseInit /\ [][PhraseNext]_vars /\ WF_vars(PhraseNext)

\* ------------------------- a direct call of _gen_phrase, the rates adjusted
\* the values each probability is set to: never, its default, always
RateChoices(default) == {0, default, 100}

RatesInit ==
    /\ heap = <<empty_note_ls, empty_note_ls>>
    /\ notes_ref = 1
    /\ mutes_ref = 2
    /\ index = 0
    /\ end = 0
    /\ adding = FALSE
    /\ tremolo = FALSE
    /\ hammerpull = FALSE
    /\ pc = "gen_loop"
    /\ caller = "direct"
    /\ tape = <<>>
    /\ rates \in [note : RateChoices(NOTE_RATE),
                  zero : RateChoices(ZERO_RATE),
                  mute : RateChoices(MUTE_RATE),
                  hammerpull : RateChoices(HAMMERPULL_RATE),
                  measure_repeat : RateChoices(MEASURE_REPEAT_RATE),
                  tremolo : RateChoices(TREMOLO_RATE),
                  phrase_repeat : {PHRASE_REPEAT_RATE}]
    /\ tpos = 0
    /\ min_phrases = 0
    /\ max_arg = NONE
    /\ max_phrases = NONE
    /\ num_phrases = 0
    /\ song = NoSong
    /\ tuning_args = DefaultArgs
    /\ tuning = NoTuning
    /\ raised = ""
    /\ options = DefaultOptions
    /\ NoFiles

SpecRates == RatesInit /\ [][PhraseNext]_vars

\* ------------------------------------------------------ a call of gen_song
SongInit ==
    /\ heap = <<>>
    /\ notes_ref = 0
    /\ mutes_ref = 0
    /\ index = 0
    /\ end = 0
    /\ adding = FALSE
    /\ tremolo = FALSE
    /\ hammerpull = FALSE
    /\ pc = "song_call"
    /\ caller = "gen_song"
    /\ tape \in SongTapes
    /\ rates = DefaultRates
    /\ tpos = 0
    /\ min_phrases = 0
    /\ max_arg = NONE
    /\ max_phrases = NONE
    /\ num_phrases = 0
    /\ song = NoSong
    /\ tuning_args = DefaultArgs
    /\ tuning = NoTuning
    /\ raised = ""
    /\ options = DefaultOptions
    /\ NoFiles

SongNext ==
    \/ gen_song_call
    \/ gen_song_gen_phrase
    \/ gen_song_return
    \/ gen_song_add
    \/ gen_song_repeat
    \/ gen_song_no_repeat
    \/ GenPhraseNext

SpecSong == SongInit /\ [][SongNext]_vars

\* --------------------------------------------- a call of the Tuning constructor
TuningInit ==
    /\ heap = <<>>
    /\ notes_ref = 0
    /\ mutes_ref = 0
    /\ index = 0
    /\ end = 0
    /\ adding = FALSE
    /\ tremolo = FALSE
    /\ hammerpull = FALSE
    /\ pc = "tuning_call"
    /\ caller = "direct"
    /\ tape = <<>>
    /\ rates = DefaultRates
    /\ tpos = 0
    /\ min_phrases = 0
    /\ max_arg = NONE
    /\ max_phrases = NONE
    /\ num_phrases = 0
    /\ song = NoSong
    /\ tuning_args = DefaultArgs
    /\ tuning = NoTuning
    /\ raised = ""
    /\ options = DefaultOptions
    /\ NoFiles

TuningNext == new_tuning \/ new_tuning_raises

SpecTuning == TuningInit /\ [][TuningNext]_vars

\* ------------------------------------------------------ a call of djenterate
\* the options are set; the output directory may be there already, with
\* files at some of the paths the call will write to
FilesInit ==
    /\ heap = <<>>
    /\ notes_ref = 0
    /\ mutes_ref = 0
    /\ index = 0
    /\ end = 0
    /\ adding = FALSE
    /\ tremolo = FALSE
    /\ hammerpull = FALSE
    /\ pc = "djenterate_call"
    /\ caller = "gen_song"
    /\ tape \in FileTapes
    /\ rates = DefaultRates
    /\ tpos = 0
    /\ min_phrases = 0
    /\ max_arg = NONE
    /\ max_phrases = NONE
    /\ num_phrases = 0
    /\ song = NoSong
    /\ tuning_args = DefaultArgs
    /\ tuning = NoTuning
    /\ raised = ""
    /\ options \in [numfiles : 1..MaxFiles, filename : FileNames,
                    dirname : DirNames, minphrases : {1},
                    maxphrases : {2}, force_overwrites : BOOLEAN]
    /\ dirs \in SUBSET {whole_filename(options.dirname, "")}
    /\ \E there \in SUBSET {target(options, i) : i \in 0..(options.numfiles - 1)} :
         /\ \A p \in there : DirPart(p) \in dirs
         /\ fs = [p \in there |-> OLD]
    /\ file_i = 0
    /\ songfile = ""
    /\ overwrite = FALSE
    /\ prompts = <<>>

FilesNext ==
    \/ djenterate_call
    \/ djenterate_gen_song
    \/ djenterate_return
    \/ djenterate_songfile
    \/ get_bool_resp
    \/ writefile
    \/ gen_song_gen_phrase
    \/ gen_song_return
    \/ gen_song_add
    \/ gen_song_repeat
    \/ gen_song_no_repeat
    \/ GenPhraseNext

SpecFiles == FilesInit /\ [][FilesNext]_vars

\* ================================================================== claims
Played == {"0", "1"}

\* C1: at every step of _gen_phrase, and in the phrase it returns, the note
\* list and the mute list both have exactly NOTES_PER_PHRASE slots and no
\* write has fallen outside the lists.
C1_PhraseLength ==
    pc # "repeated" =>
        /\ Len(notes) = NOTES_PER_PHRASE
        /\ Len(mutes) = NOTES_PER_PHRASE
        /\ raised = ""

\* a returned phrase that holds an extension and a played note in its last
\* slot
C1_Witness ==
    /\ pc = "returned"
    /\ Len(notes) = NOTES_PER_PHRASE
    /\ \E i \in 2..Len(notes) : notes[i] \in BAD_ENDINGS
    /\ notes[Len(notes)] \in Played

\* C2: in the phrase _gen_phrase returns, and in the phrase left by
\* _roll_repeated_measures, a slot that is muted holds '0' or '1'; the first
\* slot of a hammer-on/pull-off pair is never muted.
C2_MuteOnlyOnPlayed ==
    pc \in {"returned", "repeated"} =>
        /\ Len(mutes) = Len(notes)
        /\ \A i \in 1..Len(mutes) :
             /\ mutes[i] = "m" => notes[i] \in Played
             /\ notes[i] \in BAD_ENDINGS => mutes[i] = "-"

\* the measures were repeated, the boundary slot was rerolled to a muted note
\* and the second slot of a pair in front of it is muted
C2_Witness ==
    /\ pc = "repeated"
    /\ notes[Len(notes)] \in BAD_ENDINGS
    /\ mutes[Len(notes) \div 2] = "m"
    /\ notes[Len(notes) \div 2] \in Played

\* C3: in the phrase _gen_phrase returns every 'h' stands between '0' and
\* '1' and every 'p' between '1' and '0'; an extension is only written when
\* the slot before the cursor is a played note and the two slots at the
\* cursor are still free.
C3_HammerpullByPrecedingNote ==
    /\ pc = "returned" =>
         \A i \in 1..Len(notes) :
            /\ notes[i] = "h" =>
                 /\ i > 1 /\ i < Len(notes)
                 /\ notes[i - 1] = "0" /\ notes[i + 1] = "1"
            /\ notes[i] = "p" =>
                 /\ i > 1 /\ i < Len(notes)
                 /\ notes[i - 1] = "1" /\ notes[i + 1] = "0"
    /\ (pc = "effects_hammerpull" /\ hammerpull /\ index < end - 1) =>
         /\ index >= 1
         /\ notes[index] \in Played
         /\ index + 2 <= Len(notes)
         /\ notes[index + 1] = "-" /\ notes[index + 2] = "-"
         /\ mutes[index + 1] = "-" /\ mutes[index + 2] = "-"

\* a returned phrase with a pull-off after a tremolo note: played, '1', 'p', '0'
C3_Witness ==
    /\ pc = "returned"
    /\ \E i \in 3..(Len(notes) - 1) :
          /\ notes[i] = "p" /\ notes[i - 1] = "1" /\ notes[i + 1] = "0"
          /\ notes[i - 2] \in Played

\* C4: after _roll_repeated_measures the last note symbol of the phrase is
\* never 'h' or 'p'.
C4_NoBadEnding ==
    pc = "repeated" => notes[Len(notes)] \notin BAD_ENDINGS

\* the number of phrases of the song
PhraseCount == Len(song.phrase_ls)

\* C5 as stated: the song gen_song returns has at least min_phrases phrases
\* and, when max_phrases is given, at most max_phrases.
C5_CountWithinBounds ==
    pc = "song_done" =>
        /\ PhraseCount >= min_phrases
        /\ max_arg # NONE => PhraseCount <= max_arg

\* C5 amended: the same, for the calls whose max_phrases is omitted or is at
\* least min_phrases.
C5_CountWithinOrderedBounds ==
    (pc = "song_done" /\ (max_arg = NONE \/ min_phrases <= max_arg)) =>
        /\ PhraseCount >= min_phrases
        /\ max_arg # NONE => PhraseCount <= max_arg

\* a song that went past min_phrases by duplication and stopped at the cap
C5_Witness ==
    /\ pc = "song_done"
    /\ max_arg # NONE /\ min_phrases < max_arg
    /\ PhraseCount = max_arg
    /\ PhraseCount > min_phrases

\* C6: while gen_song assembles the song, the phrase count never exceeds a
\* max_phrases that was given.
C6_CapNeverExceeded ==
    (pc # "song_call" /\ max_arg # NONE) => PhraseCount <= max_arg

\* what a phrase of the song shows: per string its label and the content of
\* its list, and the content of the mute list
PhraseContent(h, ph) ==
    [lines |-> [k \in 1..ph.num_strings |->
                   [base_note |-> ph.lines[k].base_note,
                    notes |-> h[ph.lines[k].notes]]],
     mutes |-> h[ph.mute_line.notes]]

SongContent(h, sng) ==
    [k \in 1..Len(sng.phrase_ls) |-> PhraseContent(h, sng.phrase_ls[k])]

\* C7: every step of gen_song leaves the phrases already in the song as they
\* are, in number, order and content, and adds at most one phrase at the
\* end; a phrase added by the duplication loop has the notes and the mutes of
\* the phrase before it.
C7_AppendOnlyExactDuplicates ==
    [][ LET old == SongContent(heap, song)
            new == SongContent(heap', song')
        IN  /\ Len(new) \in {Len(old), Len(old) + 1}
            /\ \A k \in 1..Len(old) : new[k] = old[k]
            /\ (pc = "song_repeat" /\ Len(new) = Len(old) + 1) =>
                  /\ Len(old) >= 1
                  /\ new[Len(new)].mutes = old[Len(old)].mutes
                  /\ new[Len(new)].lines[Len(new[Len(new)].lines)].notes
                       = old[Len(old)].lines[Len(old[Len(old)].lines)].notes
      ]_vars

\* a finished song: a fresh phrase, then a different fresh phrase and its
\* duplicate
C7_Witness ==
    /\ pc = "song_done"
    /\ PhraseCount = 3
    /\ LET c == SongContent(heap, song)
       IN  /\ c[1] # c[2]
           /\ c[2] = c[3]
           /\ \E i \in 1..NOTES_PER_PHRASE : c[2].mutes[i] = "m"

\* semitones from string k-1 up to string k (strings counted from 0, the
\* thickest), read off the chromatic table
StepUp(ns, k) ==
    LET idx(n) == CHOOSE i \in 0..11 : CHROMATIC_NOTES[i + 1] = n
    IN  (idx(ns[k + 1]) - idx(ns[k]) + 12) % 12

ValidTuningCall ==
    /\ pc = "tuning_built"
    /\ tuning_args.tuning_type \in {"standard", "drop"}
    /\ \E i \in 1..12 : CHROMATIC_NOTES[i] = tuning_args.base_note
    /\ tuning_args.num_strings >= 2

\* C8 as stated: notes() has num_strings pitches, the first step is +7 under
\* 'drop' and +5 under 'standard', the step into the second-to-last string
\* is +4 and every other step is +5.
C8_OffsetsAsStated ==
    ValidTuningCall =>
        LET ns == tuning.notes
            n == tuning_args.num_strings
        IN  /\ Len(ns) = n
            /\ \A k \in 1..(Len(ns) - 1) :
                 /\ k = 1 => StepUp(ns, k) =
                       (IF tuning_args.tuning_type = "drop" THEN 7 ELSE 5)
                 /\ k = n - 2 => StepUp(ns, k) = 4
                 /\ (k # 1 /\ k # n - 2) => StepUp(ns, k) = 5

\* C8 amended: the same, except that the step into the second-to-last string
\* is +4 only when it is not the first step (num_strings >= 4); with 2 or 3
\* strings the first step is +7 / +5 and every other step is +5.
C8_OffsetsFirstStepWins ==
    ValidTuningCall =>
        LET ns == tuning.notes
            n == tuning_args.num_strings
        IN  /\ Len(ns) = n
            /\ \A k \in 1..(Len(ns) - 1) :
                 /\ k = 1 => StepUp(ns, k) =
                       (IF tuning_args.tuning_type = "drop" THEN 7 ELSE 5)
                 /\ (k # 1 /\ k = n - 2) => StepUp(ns, k) = 4
                 /\ (k # 1 /\ k # n - 2) => StepUp(ns, k) = 5

\* a 5-string standard tuning: its +4 step is the one into string 3
C8_Witness ==
    /\ ValidTuningCall
    /\ tuning_args.num_strings = 5
    /\ tuning_args.tuning_type = "standard"
    /\ StepUp(tuning.notes, 3) = 4

DropA6 == [tuning_type |-> "drop", base_note |-> "a", num_strings |-> 6]

\* C9 as stated: Tuning('drop', 'a', 6) has the notes a e a d g c.
C9_DropA6AsStated ==
    (pc = "tuning_built" /\ tuning_args = DropA6) =>
        tuning.notes = <<"a", "e", "a", "d", "g", "c">>

\* C9 amended: Tuning('drop', 'a', 6) has the notes a e a d f# b.
C9_DropA6 ==
    (pc = "tuning_built" /\ tuning_args = DropA6) =>
        tuning.notes = <<"a", "e", "a", "d", "f#", "b">>

C9_Witness ==
    /\ pc = "tuning_built"
    /\ tuning_args = DropA6
    /\ Len(tuning.notes) = 6

\* C10: a constructor call whose tuning_type is neither 'standard' nor
\* 'drop' ends with InvalidConfiguration and leaves no tuning.
C10_UnknownFamilyRejected ==
    (/\ pc # "tuning_call"
     /\ tuning_args.tuning_type \notin {"standard", "drop", "DROP"}
     /\ tuning_args.num_strings >= 2
     /\ \E i \in 1..12 : CHROMATIC_NOTES[i] = tuning_args.base_note) =>
        /\ pc = "raised"
        /\ raised = "InvalidConfiguration"
        /\ tuning = NoTuning

\* C11: a constructor call whose num_strings is below 2 ends with
\* InvalidConfiguration and returns no pitch sequence.
C11_TooFewStringsRejected ==
    (/\ pc # "tuning_call"
     /\ tuning_args.num_strings < 2
     /\ tuning_args.tuning_type \in {"standard", "drop"}
     /\ \E i \in 1..12 : CHROMATIC_NOTES[i] = tuning_args.base_note) =>
        /\ pc = "raised"
        /\ raised = "InvalidConfiguration"
        /\ tuning = NoTuning

\* C12: with note_rate = 1, zero_rate = 1 and mute_rate = hammerpull_rate =
\* tremolo_rate = 0 the phrase _gen_phrase returns has '0' in every note slot
\* and '-' in every mute slot.
C12_AllOpenNotes ==
    (/\ pc = "returned"
     /\ rates.note = 100 /\ rates.zero = 100
     /\ rates.mute = 0 /\ rates.hammerpull = 0 /\ rates.tremolo = 0) =>
        /\ Len(notes) = NOTES_PER_PHRASE
        /\ Len(mutes) = NOTES_PER_PHRASE
        /\ \A i \in 1..Len(notes) : notes[i] = "0"
        /\ \A i \in 1..Len(mutes) : mutes[i] = "-"

C12_Witness ==
    /\ pc = "returned"
    /\ rates.note = 100 /\ rates.zero = 100
    /\ rates.mute = 0 /\ rates.hammerpull = 0 /\ rates.tremolo = 0
    /\ index = NOTES_PER_PHRASE
    /\ notes[1] = "0"

\* C13: in every phrase of the song only the last line, the one labelled
\* with the tuning's base note (the thickest string), holds the generated
\* note list; every other line is a list of its own of as many '-' and is
\* shared with nothing.
C13_OnlyBaseStringPlayed ==
    \A p \in 1..Len(song.phrase_ls) :
        LET ph == song.phrase_ls[p]
            strs == ph.num_strings
            played == ph.lines[strs]
        IN  /\ strs = Len(song.tuning.notes)
            /\ Len(ph.lines) = strs
            /\ played.base_note = song.tuning.notes[1]
            /\ Len(heap[played.notes]) = NOTES_PER_PHRASE
            /\ Len(heap[ph.mute_line.notes]) = NOTES_PER_PHRASE
            /\ \A k \in 1..(strs - 1) :
                 /\ Len(heap[ph.lines[k].notes]) = Len(heap[played.notes])
                 /\ \A i \in 1..Len(heap[ph.lines[k].notes]) :
                       heap[ph.lines[k].notes][i] = "-"
                 /\ ph.lines[k].notes # played.notes
                 /\ ph.lines[k].notes # ph.mute_line.notes
                 /\ ph.lines[k].notes \notin {notes_ref, mutes_ref}
            /\ (p = Len(song.phrase_ls) /\ pc = "song_repeat") =>
                 /\ played.notes = notes_ref
                 /\ ph.mute_line.notes = mutes_ref

\* a song of two phrases whose played lines hold notes, while the generator
\* has handed the second phrase over
C13_Witness ==
    /\ pc = "song_repeat"
    /\ Len(song.phrase_ls) = 2
    /\ \A p \in 1..2 :
          LET ph == song.phrase_ls[p]
          IN  \E i \in 1..NOTES_PER_PHRASE :
                 heap[ph.lines[ph.num_strings].notes][i] \in Played

\* C17: _gen_phrase terminates on every sequence of draw outcomes: every run
\* of the direct call reaches the end of the call (or an exception), whatever
\* the draws are.
C17_GenPhraseTerminates == <>(pc \in {"returned", "repeated", "raised"})

C19_CapBeatsMinimum ==
    (pc = "song_done" /\ max_arg # NONE /\ max_arg >= 0
                      /\ max_arg < min_phrases) =>
        PhraseCount = max_arg

\* the steps of _gen_phrase and of the functions it calls
GenPhraseStep == pc \in {"gen_loop", "effects_loop", "tremolo_loop",
                         "effects_hammerpull"}

\* C20: while _gen_phrase runs the cursor is within 0..NOTES_PER_PHRASE and
\* every slot at or beyond it still holds ('-', '-'); the phrase is returned
\* with the cursor at NOTES_PER_PHRASE; no step moves the cursor back, and a
\* step changes only slots that lie between the old and the new cursor and
\* held ('-', '-'), so no slot is written twice.
C20_CursorScansOnce ==
    /\ [](/\ (GenPhraseStep \/ pc = "returned") =>
              /\ index \in 0..NOTES_PER_PHRASE
              /\ \A i \in index..(Len(notes) - 1) :
                    ListGet(notes, i) = "-" /\ ListGet(mutes, i) = "-"
          /\ pc = "returned" => index = NOTES_PER_PHRASE)
    /\ [][ GenPhraseStep =>
             /\ index' >= index
             /\ Len(notes') = Len(notes) /\ Len(mutes') = Len(mutes)
             /\ \A i \in 0..(Len(notes) - 1) :
                   (ListGet(notes', i) # ListGet(notes, i)
                      \/ ListGet(mutes', i) # ListGet(mutes, i)) =>
                       /\ index <= i /\ i < index'
                       /\ ListGet(notes, i) = "-"
                       /\ ListGet(mutes, i) = "-"
      ]_vars

\* a returned phrase whose every slot was written, two of them by an
\* extension
C20_Witness ==
    /\ pc = "returned"
    /\ index = NOTES_PER_PHRASE
    /\ \A i \in 1..Len(notes) : notes[i] # "-"
    /\ \E i \in 1..Len(notes) : notes[i] \in BAD_ENDINGS

\* the lines of a text, cut at its newlines
RECURSIVE SplitFrom(_, _)
SplitFrom(s, start) ==
    LET stop == CHOOSE i \in start..(Len(s) + 1) :
                   /\ i = Len(s) + 1 \/ SubSeq(s, i, i) = "\n"
                   /\ \A j \in start..(i - 1) : SubSeq(s, j, j) # "\n"
    IN  IF stop > Len(s) THEN <<SubSeq(s, start, Len(s))>>
        ELSE <<SubSeq(s, start, stop - 1)>> \o SplitFrom(s, stop + 1)

SplitLines(s) == SplitFrom(s, 1)

\* the files djenterate has written
WrittenFiles == {p \in DOMAIN fs : fs[p] # OLD}

\* _writefile has just written the song to songfile
JustWritten == pc = "file_loop" /\ songfile \in WrittenFiles

\* the text s is a series of phrases, an empty line between two of them,
\* each of one line per string, labelled label[1], label[2], ... from the
\* top, and a mute line
PhrasesLabelled(s, label) ==
    LET ls == SplitLines(s)
        strs == Len(label)
        per == strs + 2
    IN  /\ (Len(ls) + 1) % per = 0
        /\ \A j \in 1..Len(ls) :
             LET k == ((j - 1) % per) + 1
             IN  /\ k <= strs =>
                      /\ SubSeq(ls[j], 1, 3) = rjust2(label[k]) \o "|"
                      /\ SubSeq(ls[j], Len(ls[j]), Len(ls[j])) = "|"
                 /\ k = strs + 1 =>
                      /\ SubSeq(ls[j], 1, 3) = "  {"
                      /\ SubSeq(ls[j], Len(ls[j]), Len(ls[j])) = "}"
                 /\ k = strs + 2 => ls[j] = ""

\* C14 as stated: in the text of a song, as it is written to its file, every
\* phrase has one line per string, the widest string (the base note of the
\* tuning) on top and the narrowest at the bottom, each labelled with its
\* note, and then the mute line.
C14_WidestStringFirst ==
    JustWritten => PhrasesLabelled(fs[songfile], song.tuning.notes)

\* C14 amended: the narrowest string is on top and the widest (the base note
\* of the tuning) at the bottom, right above the mute line.
C14_WidestStringLast ==
    JustWritten =>
        /\ song.tuning.base_note = song.tuning.notes[1]
        /\ PhrasesLabelled(fs[songfile],
              [k \in 1..Len(song.tuning.notes) |->
                  song.tuning.notes[Len(song.tuning.notes) - k + 1]])

\* a written song of two phrases, a note on the bottom string line of the
\* first
C14_Witness ==
    /\ JustWritten
    /\ LET ls == SplitLines(fs[songfile])
           strs == Len(song.tuning.notes)
       IN  /\ Len(ls) = 2 * (strs + 2) - 1
           /\ SubSeq(ls[strs], 1, 4) = " a|0"
           /\ SubSeq(ls[1], 4, 4) = "-"

\* name with the decimal number n put right before its extension (the part
\* from its last '.' on), or at its end when it has no '.'
Numbered(name, n) ==
    LET dots == {i \in 1..Len(name) : SubSeq(name, i, i) = "."}
        cut == IF dots = {} THEN Len(name) + 1
               ELSE CHOOSE i \in dots : \A j \in dots : j <= i
    IN  SubSeq(name, 1, cut - 1) \o str(n) \o SubSeq(name, cut, Len(name))

\* the directory name, closed by one separator
DirPath(dirname) ==
    IF SubSeq(dirname, Len(dirname), Len(dirname)) = PATH_SEP THEN dirname
    ELSE dirname \o PATH_SEP

\* C16: with numfiles > 1 the i-th song (i = 1..numfiles) goes to the
\* directory path followed by the file name numbered i before its extension
\* (at its end when it has none); the directory part is as given and the
\* paths of one batch are pairwise distinct.
C16_NumberInFileName ==
    (pc \in {"file_prompt", "file_write"} /\ options.numfiles > 1) =>
        /\ songfile = DirPath(options.dirname)
                         \o Numbered(options.filename, file_i + 1)
        /\ DirPart(songfile) = DirPath(options.dirname)
        /\ \A i, j \in 0..(options.numfiles - 1) :
              i # j => target(options, i) # target(options, j)

\* the last input() call and what was answered
LastPrompt(ps) == ps[Len(ps)]
SaidYes(resp) == Lower(resp) \in {"y", "yes"}
SaidNo(resp) == Lower(resp) \in {"n", "no"}

\* C15: while djenterate runs, no file is removed and the content of a file
\* that exists changes only in a step that writes the current target path,
\* with force_overwrites set or right after the user answered yes to the
\* prompt for that path; input() is only called for a target that exists;
\* the step in which the user answers no leaves every file as it is and
\* moves on to the next file of the batch; with force_overwrites set
\* input() is never called.
C15_OverwriteOnlyWhenAllowed ==
    /\ [](options.force_overwrites => prompts = <<>>)
    /\ [][ /\ DOMAIN fs \subseteq DOMAIN fs'
           /\ \A p \in DOMAIN fs :
                fs'[p] # fs[p] =>
                   /\ p = songfile
                   /\ \/ options.force_overwrites
                      \/ /\ prompts # <<>>
                         /\ LastPrompt(prompts).file = p
                         /\ SaidYes(LastPrompt(prompts).resp)
           /\ Len(prompts') > Len(prompts) =>
                /\ Len(prompts') = Len(prompts) + 1
                /\ LastPrompt(prompts').file = songfile
                /\ songfile \in DOMAIN fs
                /\ fs' = fs
           /\ (/\ Len(prompts') > Len(prompts)
               /\ SaidNo(LastPrompt(prompts').resp)) =>
                /\ file_i' = file_i + 1
                /\ pc' = "file_loop"
         ]_vars

\* a finished batch of two files that were both there: the user declined
\* the first, which is as it was, and confirmed the second, which is
\* rewritten
C15_Witness ==
    /\ pc = "djenterate_done"
    /\ ~options.force_overwrites
    /\ \E a, b \in 1..Len(prompts) :
          /\ a < b
          /\ SaidNo(prompts[a].resp)
          /\ fs[prompts[a].file] = OLD
          /\ SaidYes(prompts[b].resp)
          /\ prompts[b].file # prompts[a].file
          /\ fs[prompts[b].file] # OLD
====
